---- MODULE Spec2Model ----
(***************************************************************************)
(* Model of TranslationWorker.process_request (src/nmt_worker.py).         *)
(*                                                                         *)
(* A Python string is a sequence of one-character TLA+ strings, so that    *)
(* strip(), index(), slicing and join() are computed and not assumed.      *)
(* A Python list of strings is a sequence of such sequences.               *)
(***************************************************************************)
EXTENDS Integers, Sequences, FiniteSets, TLC

\* ---------------------------------------------------------------- bounds
MaxTextLen == 3     \* longest Plain text
MaxSents == 2       \* most sentences of one request
MaxSentLen == 2     \* longest raw sentence / list element
MaxCharLimit == 2   \* largest configured char_limit

\* ------------------------------------------------------------ value sets
Chars == {"a", " "}

Strings(n) == UNION {[1..k -> Chars] : k \in 0..n}

Lists(S, n) == UNION {[1..k -> S] : k \in 0..n}

\* A JSON value that is not a string (a number, null, an object ...), as a
\* list element.  It is no member of Strings(n).
NonString == <<"#nonstring">>

IsStr(e) == \A i \in 1..Len(e) : e[i] \in Chars

\* Python's None
None == [none |-> TRUE, val |-> <<>>]

Some(v) == [none |-> FALSE, val |-> v]

\* --------------------------------------------------------- configuration
\* factors['lang']: mapping and the ordered default list
LangMapping == [et |-> "<et>", en |-> "<en>"]

LangFactors == <<"et", "en">>

\* factors['domain'] (when the axis is configured)
DomainMapping == [general |-> "<gen>", legal |-> "<leg>"]

DomainFactors == <<"<gen>", "<leg>">>

\* ------------------------------------------------------ string functions
Min(S) == CHOOSE x \in S : \A y \in S : x <= y

Max(S) == CHOOSE x \in S : \A y \in S : x >= y

\* a string of whitespace only (the empty string included)
Blank(s) == \A i \in 1..Len(s) : s[i] = " "

\* str.strip(): drop leading and trailing whitespace
Strip(s) ==
  LET keep == {i \in 1..Len(s) : s[i] # " "}
  IN  IF keep = {} THEN <<>> ELSE SubSeq(s, Min(keep), Max(keep))

\* a variant that drops the sentences that strip to nothing
StripAll_DropEmpty(l) ==
  SelectSeq([i \in 1..Len(l) |-> Strip(l[i])], LAMBDA s : s # <<>>)

StripAll(l) == [i \in 1..Len(l) |-> Strip(l[i])]

\* str.index(sub): 0-based position of the first occurrence, -1 for ValueError
Index(text, sub) ==
  LET hits == {i \in 0..(Len(text) - Len(sub)) :
                 SubSeq(text, i + 1, i + Len(sub)) = sub}
  IN  IF hits = {} THEN -1 ELSE Min(hits)

\* the loop of lines 71-75: [ok, delims] where ok = FALSE iff index() raised
RECURSIVE TrackDelimiters(_, _, _)
TrackDelimiters(text, sents, acc) ==
  IF sents = <<>> THEN [ok |-> TRUE, delims |-> Append(acc, text)]
  ELSE LET sent == Head(sents)
           idx  == Index(text, sent)
       IN  IF idx = -1 THEN [ok |-> FALSE, delims |-> acc]
           ELSE TrackDelimiters(SubSeq(text, idx + Len(sent) + 1, Len(text)),
                                Tail(sents),
                                Append(acc, SubSeq(text, 1, idx)))

\* line 77: ['', *[' ' for _ in range(len(sentences) - 1)], '']
FallbackDelimiters(n) ==
  <<(<<>>)>> \o [i \in 1..(n - 1) |-> <<" ">>] \o <<(<<>>)>>

\* a variant that keeps the delimiters recovered before the failure
Delimiters_KeepRecovered(text, sents) ==
  LET t == TrackDelimiters(text, sents, <<>>)
      f == FallbackDelimiters(Len(sents))
  IN  IF t.ok THEN t.delims
      ELSE t.delims \o SubSeq(f, Len(t.delims) + 1, Len(f))

\* lines 69-77
Delimiters(text, sents) ==
  LET t == TrackDelimiters(text, sents, <<>>)
  IN  IF t.ok THEN t.delims ELSE FallbackDelimiters(Len(sents))

\* a variant that counts the sentences instead of their characters
SumLen_CountSentences(l) == Len(l)

\* line 81: sum([len(sent) for sent in sentences])
RECURSIVE SumLen(_)
SumLen(l) == IF l = <<>> THEN 0 ELSE Len(Head(l)) + SumLen(Tail(l))

RECURSIVE Concat(_)
Concat(l) == IF l = <<>> THEN <<>> ELSE Head(l) \o Concat(Tail(l))

\* zip(a, b): stops at the shorter argument
Zip(a, b) ==
  LET n == IF Len(a) <= Len(b) THEN Len(a) ELSE Len(b)
  IN  [i \in 1..n |-> <<a[i], b[i]>>]

\* a variant that forgets the trailing delimiter
Join_NoTail(delims, trans) ==
  LET z == Zip(delims, trans)
  IN  Concat([i \in 1..Len(z) |-> z[i][1] \o z[i][2]])

\* line 102: ''.join(chain.from_iterable(zip(delimiters, translations)))
\*           + delimiters[-1]
Join(delims, trans) ==
  LET z == Zip(delims, trans)
  IN  Concat([i \in 1..Len(z) |-> z[i][1] \o z[i][2]]) \o delims[Len(delims)]

\* iterating a Python value: a list yields its elements, a string yields
\* its characters as one-character strings
Items(v) ==
  IF v.kind = "str" THEN [i \in 1..Len(v.val) |-> <<v.val[i]>>] ELSE v.val


\* ----------------------------------------------------- external services
\* sent_tokenize(text): the sentence detector is an external library.  Any
\* sequence of at most MaxSents raw sentences can come back, found in the
\* text or not, but the detector neither invents content for a text that
\* has none nor loses all the content of a text that has some.
DetectorOutputs(text) ==
  {r \in Lists(Strings(MaxSentLen), MaxSents) :
     (\E i \in 1..Len(r) : ~Blank(r[i])) <=> ~Blank(text)}

\* what the engine can return for one sentence: the sentence itself or a
\* target-language string
TargetStrings == {<<"b", "c">>}

\* Translator.translate(sentences, sent_factors): one string per sentence
EngineOutputs(sents) ==
  {t \in [1..Len(sents) -> Strings(MaxSentLen) \cup TargetStrings] :
     \A i \in 1..Len(sents) : t[i] \in {sents[i]} \cup TargetStrings}

\* ------------------------------------------------------------------ state
VARIABLES
  pc,            \* position in process_request
  qe_model,      \* self.qe_model is not None
  factors,       \* names of the axes of self.engine.factors
  char_limit,    \* self.char_limit
  body,          \* the request body, replaced by the loaded body at line 60
  sentences,     \* local sentences
  delimiters,    \* local delimiters (None or a list of strings)
  length,        \* local length
  sent_factors,  \* local sent_factors
  translations,  \* local translations (a list, or a string after line 102)
  engine_out,    \* what engine.translate returned (kept for the analysis)
  engine_calls,  \* number of engine.translate calls, with their argument
  qe_calls,      \* arguments of the qe_model.predict calls
  response,      \* the returned Response
  raised         \* the exception that left process_request, or "none"

vars == <<pc, qe_model, factors, char_limit, body, sentences, delimiters,
          length, sent_factors, translations, engine_out, engine_calls,
          qe_calls, response, raised>>

config == <<qe_model, factors, char_limit>>

locals == <<sentences, delimiters, length, sent_factors, translations,
            engine_out>>

\* the request body before it is loaded; src, tgt and domain are read at
\* line 60
RawBody(t) == [text |-> t, src |-> "?", tgt |-> "?", domain |-> "?"]

NoResponse == [kind |-> "none", status |-> 0,
               result |-> [kind |-> "none", val |-> <<>>], qeScore |-> "none"]

Init ==
  /\ pc = "Start"
  /\ qe_model \in BOOLEAN
  /\ factors \in {{"lang"}, {"lang", "domain"}}
  /\ char_limit \in 1..MaxCharLimit
  /\ \/ body = RawBody([kind |-> "absent", val |-> <<>>])
     \/ body = RawBody([kind |-> "other", val |-> <<>>])
     \/ \E s \in Strings(MaxTextLen) :
          body = RawBody([kind |-> "str", val |-> s])
     \/ \E l \in Lists(Strings(MaxSentLen) \cup {NonString}, MaxSents) :
          body = RawBody([kind |-> "list", val |-> l])
  /\ sentences = <<>>
  /\ delimiters = None
  /\ length = 0
  /\ sent_factors = [src_lang |-> "?", tgt_lang |-> "?", domain |-> "?"]
  /\ translations = [kind |-> "none", val |-> <<>>]
  /\ engine_out = <<>>
  /\ engine_calls = <<>>
  /\ qe_calls = <<>>
  /\ response = NoResponse
  /\ raised = "none"

\* ------------------------------------------------------------- validation
\* NMTSchema (lines 46-53): the fields that fail to load
TextValid(t) == t.kind \in {"absent", "str", "list"}

LangValid(l) == l = "absent" \/ l \in DOMAIN LangMapping

SchemaErrors(text, src, tgt) ==
       (IF TextValid(text) THEN {} ELSE {"text"})
  \cup (IF LangValid(src) THEN {} ELSE {"src"})
  \cup (IF LangValid(tgt) THEN {} ELSE {"tgt"})

\* schema().load(body): missing fields get their defaults; text has none
Load(text, src, tgt, domain) ==
  [text   |-> text,
   src    |-> IF src = "absent" THEN LangFactors[1] ELSE src,
   tgt    |-> IF tgt = "absent" THEN LangFactors[1] ELSE tgt,
   domain |-> IF domain = "absent" THEN "" ELSE domain]

ErrorResponse(code) ==
  [kind |-> "error", status |-> code,
   result |-> [kind |-> "none", val |-> <<>>], qeScore |-> "none"]

SuccessResponse(res, qe) ==
  [kind |-> "success", status |-> 200, result |-> res, qeScore |-> qe]

\* lines 59-61: the request passes the schema
ValidateOk ==
  /\ pc = "Start"
  /\ \E src \in {"absent", "et", "xx"}, tgt \in {"en", "xx"},
        domain \in {"absent", "", "legal", "zz"} :
       /\ SchemaErrors(body.text, src, tgt) = {}
       /\ body' = Load(body.text, src, tgt, domain)
  /\ pc' = "Validated"
  /\ UNCHANGED <<config, locals, engine_calls, qe_calls, response, raised>>

\* lines 62-63: ValidationError -> 400
ValidateFail ==
  /\ pc = "Start"
  /\ \E src \in {"absent", "et", "xx"}, tgt \in {"en", "xx"} :
       SchemaErrors(body.text, src, tgt) # {}
  /\ response' = ErrorResponse(400)
  /\ pc' = "Done"
  /\ UNCHANGED <<config, body, locals, engine_calls, qe_calls, raised>>

\* ----------------------------------------------------------- segmentation
\* line 66: body['text'] on a loaded body without the key
SegmentKeyError ==
  /\ pc = "Validated"
  /\ body.text.kind = "absent"
  /\ raised' = "KeyError"
  /\ pc' = "Raised"
  /\ UNCHANGED <<config, body, locals, engine_calls, qe_calls, response>>

\* lines 66-77: Plain text
SegmentPlain ==
  /\ pc = "Validated"
  /\ body.text.kind = "str"
  /\ \E raw \in DetectorOutputs(body.text.val) :
       /\ sentences' = StripAll(raw)
       /\ delimiters' = Some(Delimiters(body.text.val, StripAll(raw)))
  /\ pc' = "Segmented"
  /\ UNCHANGED <<config, body, length, sent_factors, translations,
                 engine_out, engine_calls, qe_calls, response, raised>>

\* lines 78-79: a list of strings
SegmentList ==
  /\ pc = "Validated"
  /\ body.text.kind = "list"
  /\ \A i \in 1..Len(body.text.val) : IsStr(body.text.val[i])
  /\ sentences' = StripAll(body.text.val)
  /\ pc' = "Segmented"
  /\ UNCHANGED <<config, body, delimiters, length, sent_factors,
                 translations, engine_out, engine_calls, qe_calls, response,
                 raised>>

\* line 79: sent.strip() on an element that is no string
SegmentAttributeError ==
  /\ pc = "Validated"
  /\ body.text.kind = "list"
  /\ \E i \in 1..Len(body.text.val) : ~IsStr(body.text.val[i])
  /\ raised' = "AttributeError"
  /\ pc' = "Raised"
  /\ UNCHANGED <<config, body, locals, engine_calls, qe_calls, response>>

\* ------------------------------------------------------------ length guard
\* lines 81-87
EmptyShortcut ==
  /\ pc = "Segmented"
  /\ length' = SumLen(sentences)
  /\ length' = 0
  /\ pc' = "EmptyShortcut"
  /\ UNCHANGED <<config, body, sentences, delimiters, sent_factors,
                 translations, engine_out, engine_calls, qe_calls, response,
                 raised>>

ReturnEmpty ==
  /\ pc = "EmptyShortcut"
  /\ response' = SuccessResponse(
                   IF body.text.kind = "str"
                     THEN [kind |-> "str", val |-> <<>>]
                     ELSE [kind |-> "list", val |-> <<>>], "none")
  /\ pc' = "Done"
  /\ UNCHANGED <<config, body, locals, engine_calls, qe_calls, raised>>

\* a variant that also rejects a request of exactly the limit
IsTooLarge_AtLimit(len, limit) == len >= limit

\* line 88: length > self.char_limit
IsTooLarge(len, limit) == len > limit

\* lines 81, 88-91
TooLarge ==
  /\ pc = "Segmented"
  /\ length' = SumLen(sentences)
  /\ length' # 0
  /\ IsTooLarge(length', char_limit)
  /\ pc' = "TooLarge"
  /\ UNCHANGED <<config, body, sentences, delimiters, sent_factors,
                 translations, engine_out, engine_calls, qe_calls, response,
                 raised>>

ReturnTooLarge ==
  /\ pc = "TooLarge"
  /\ response' = ErrorResponse(413)
  /\ pc' = "Done"
  /\ UNCHANGED <<config, body, locals, engine_calls, qe_calls, raised>>

\* ------------------------------------------------------- factor resolution
\* a variant without the fallback for a domain the mapping does not know
ResolveDomain_NoFallback(axes, domain) ==
  IF "domain" \in axes
    THEN IF domain \in DOMAIN DomainMapping
           THEN DomainMapping[domain]
           ELSE "omitted"
    ELSE "omitted"

\* lines 95-99
ResolveDomain(axes, domain) ==
  IF "domain" \in axes
    THEN IF domain # "" /\ domain \in DOMAIN DomainMapping
           THEN DomainMapping[domain]
           ELSE DomainFactors[1]
    ELSE "omitted"

\* lines 81, 92-99
ResolveFactors ==
  /\ pc = "Segmented"
  /\ length' = SumLen(sentences)
  /\ length' # 0
  /\ ~IsTooLarge(length', char_limit)
  /\ sent_factors' = [src_lang |-> LangMapping[body.src],
                      tgt_lang |-> LangMapping[body.tgt],
                      domain   |-> ResolveDomain(factors, body.domain)]
  /\ pc' = "Resolved"
  /\ UNCHANGED <<config, body, sentences, delimiters, translations,
                 engine_out, engine_calls, qe_calls, response, raised>>

\* ---------------------------------------------------------- translation
\* line 100
Translate ==
  /\ pc = "Resolved"
  /\ \E t \in EngineOutputs(sentences) :
       /\ translations' = [kind |-> "list", val |-> t]
       /\ engine_out' = t
  /\ engine_calls' = Append(engine_calls, sentences)
  /\ pc' = "Translated"
  /\ UNCHANGED <<config, body, sentences, delimiters, length, sent_factors,
                 qe_calls, response, raised>>

\* lines 101-102: `if delimiters:` is false for None and for []
Reassembled(delims, trans) ==
  IF ~delims.none /\ delims.val # <<>>
    THEN [kind |-> "str", val |-> Join(delims.val, trans.val)]
    ELSE trans

Reassemble ==
  /\ pc = "Translated"
  /\ translations' = Reassembled(delimiters, translations)
  /\ pc' = "Reassembled"
  /\ UNCHANGED <<config, body, sentences, delimiters, length, sent_factors,
                 engine_out, engine_calls, qe_calls, response, raised>>

\* ------------------------------------------------------ quality estimation
\* line 105: the pairs handed to qe_model.predict
QEPairs(sents, trans) == Zip(sents, Items(trans))

\* lines 104-108
Score ==
  /\ pc = "Reassembled"
  /\ qe_model
  /\ qe_calls' = Append(qe_calls, QEPairs(sentences, translations))
  /\ pc' = "Scored"
  /\ UNCHANGED <<config, body, locals, engine_calls, response, raised>>

\* line 104, qe_model is None
SkipScore ==
  /\ pc = "Reassembled"
  /\ ~qe_model
  /\ pc' = "Unscored"
  /\ UNCHANGED <<config, body, locals, engine_calls, qe_calls, response,
                 raised>>

\* line 110
ReturnScored ==
  /\ pc = "Scored"
  /\ response' = SuccessResponse(translations,
                   IF body.text.kind = "str" THEN "float" ELSE "list")
  /\ pc' = "Done"
  /\ UNCHANGED <<config, body, locals, engine_calls, qe_calls, raised>>

\* line 112
ReturnUnscored ==
  /\ pc = "Unscored"
  /\ response' = SuccessResponse(translations, "none")
  /\ pc' = "Done"
  /\ UNCHANGED <<config, body, locals, engine_calls, qe_calls, raised>>

Next ==
  \/ ValidateOk
  \/ ValidateFail
  \/ SegmentKeyError
  \/ SegmentPlain
  \/ SegmentList
  \/ SegmentAttributeError
  \/ EmptyShortcut
  \/ ReturnEmpty
  \/ TooLarge
  \/ ReturnTooLarge
  \/ ResolveFactors
  \/ Translate
  \/ Reassemble
  \/ Score
  \/ SkipScore
  \/ ReturnScored
  \/ ReturnUnscored

Spec == Init /\ [][Next]_vars

\* ================================================================ claims
\* the body has been loaded by the schema (line 60 returned)
Loaded == body.src # "?"

\* the positions after the segmentation of lines 65-79
AfterSegmentation ==
  {"Segmented", "EmptyShortcut", "TooLarge", "Resolved", "Translated",
   "Reassembled", "Scored", "Unscored", "Done"}

\* the request got past the schema and text is a string or a list of strings
Accepted ==
  /\ Loaded
  /\ \/ body.text.kind = "str"
     \/ /\ body.text.kind = "list"
        /\ \A i \in 1..Len(body.text.val) : IsStr(body.text.val[i])

\* ---------------------------------------------------------------------- C1
\* C1 as stated: a success response to a Plain request carries a string; a
\* success response to a Segmented request carries a list as long as the
\* input list, whitespace-only lists included.
C1_ShapePreservation_AsStated ==
  (pc = "Done" /\ response.kind = "success") =>
    IF body.text.kind = "str"
      THEN response.result.kind = "str"
      ELSE /\ response.result.kind = "list"
           /\ Len(response.result.val) = Len(body.text.val)

\* C1 amended: a success response to a Plain request carries a string; a
\* success response to a Segmented request carries a list, which is as long
\* as the input list when some element has a non-whitespace character, and
\* empty when every element is empty or whitespace-only.
C1_ShapePreservation ==
  (pc = "Done" /\ response.kind = "success") =>
    IF body.text.kind = "str"
      THEN response.result.kind = "str"
      ELSE /\ response.result.kind = "list"
           /\ IF \A i \in 1..Len(body.text.val) : Blank(body.text.val[i])
                THEN response.result.val = <<>>
                ELSE Len(response.result.val) = Len(body.text.val)

\* a two-element list with one whitespace-only element, answered by a
\* two-element list
C1_Witness ==
  /\ pc = "Done"
  /\ response.kind = "success"
  /\ body.text.kind = "list"
  /\ Len(body.text.val) = 2
  /\ \E i \in 1..2 : Blank(body.text.val[i])
  /\ response.result.kind = "list"
  /\ Len(response.result.val) = 2

\* ---------------------------------------------------------------------- C2
\* C2: whenever the QE model is called, it is called with len(sentences)
\* pairs, pair i being (sentences[i], the engine's translation of
\* sentences[i]), for Plain and for Segmented requests.
C2_QEPairsFromTranslations ==
  qe_calls # <<>> =>
    /\ Len(qe_calls[1]) = Len(sentences)
    /\ \A i \in 1..Len(qe_calls[1]) :
         qe_calls[1][i] = <<sentences[i], engine_out[i]>>

\* ---------------------------------------------------------------------- C3
\* every stripped sentence is found by the sequential search of lines 71-75
AllFound == TrackDelimiters(body.text.val, sentences, <<>>).ok

\* the engine, when called, returned its argument
IdentityEngine == engine_calls # <<>> => engine_out = sentences

\* C3 as stated: a Plain request whose sentences are all found and whose
\* engine is the identity is answered by the original text.
C3_RoundTrip_AsStated ==
  (pc = "Done" /\ Loaded /\ body.text.kind = "str" /\ AllFound
     /\ IdentityEngine) =>
    /\ response.kind = "success"
    /\ response.result.kind = "str"
    /\ response.result.val = body.text.val

\* C3 amended: a Plain request whose stripped sentences total at least 1
\* and at most char_limit characters, are all found by the sequential
\* search, and are translated by the identity, is answered by the original
\* text exactly.
C3_RoundTrip ==
  (pc = "Done" /\ Loaded /\ body.text.kind = "str" /\ AllFound
     /\ IdentityEngine /\ length >= 1 /\ length <= char_limit) =>
    /\ response.kind = "success"
    /\ response.result.kind = "str"
    /\ response.result.val = body.text.val

\* two sentences with text around them, translated by the identity
C3_Witness ==
  /\ pc = "Done"
  /\ Loaded
  /\ body.text.kind = "str"
  /\ Len(sentences) = 2
  /\ sentences[1] # <<>>
  /\ sentences[2] # <<>>
  /\ AllFound
  /\ engine_calls # <<>>
  /\ engine_out = sentences
  /\ Concat(sentences) # body.text.val
  /\ response.result.kind = "str"
  /\ response.result.val = body.text.val

\* ---------------------------------------------------------------------- C4
\* text is neither a string nor a list of strings
InvalidText ==
  \/ body.text.kind = "other"
  \/ /\ body.text.kind = "list"
     /\ \E i \in 1..Len(body.text.val) : ~IsStr(body.text.val[i])

\* C4: a request whose text is neither a string nor a list of strings ends
\* in an error response with status 400, and the engine is not invoked.
C4_InvalidTextRejected ==
  InvalidText =>
    /\ engine_calls = <<>>
    /\ pc \in {"Done", "Raised"} =>
         (response.kind = "error" /\ response.status = 400)

\* ---------------------------------------------------------------------- C5
\* C5: process_request ends only by returning one Response, a success or an
\* error with status 400 or 413.
C5_ExactlyOneOutcome ==
  /\ raised = "none"
  /\ pc # "Raised"
  /\ pc = "Done" =>
       \/ response.kind = "success"
       \/ response.kind = "error" /\ response.status \in {400, 413}

\* ---------------------------------------------------------------------- C6
\* every stripped sentence of the request is empty
NothingToTranslate ==
  IF body.text.kind = "list"
    THEN \A i \in 1..Len(body.text.val) : Blank(body.text.val[i])
    ELSE \A i \in 1..Len(sentences) : sentences[i] = <<>>

\* C6: when the stripped sentences total 0 characters, neither the engine
\* nor the QE model is invoked, and the response is a success with "" for a
\* Plain request and [] for a Segmented one.
C6_EmptyShortcut ==
  (Accepted /\ pc \in AfterSegmentation /\ NothingToTranslate) =>
    /\ engine_calls = <<>>
    /\ qe_calls = <<>>
    /\ pc \in {"Segmented", "EmptyShortcut", "Done"}
    /\ pc = "Done" =>
         /\ response.kind = "success"
         /\ response.result.kind = body.text.kind
         /\ response.result.val = <<>>
         /\ response.qeScore = "none"

\* a list of two elements, one of them a space, with a QE model configured
C6_Witness ==
  /\ pc = "Done"
  /\ Accepted
  /\ qe_model
  /\ body.text.kind = "list"
  /\ Len(body.text.val) = 2
  /\ NothingToTranslate
  /\ \E i \in 1..2 : body.text.val[i] # <<>>
  /\ response.kind = "success"
  /\ response.result.val = <<>>

\* ---------------------------------------------------------------------- C7
\* the characters of the stripped sentences
RECURSIVE TotalChars(_)
TotalChars(l) == IF l = <<>> THEN 0 ELSE Len(Head(l)) + TotalChars(Tail(l))

\* C7: above char_limit the response is an error with status 413 and the
\* engine is not invoked; from 1 to char_limit, the limit included, the
\* request goes to the engine and is answered by a success.
C7_SizeGuard ==
  (Accepted /\ pc \in (AfterSegmentation \ {"Segmented"})) =>
    /\ TotalChars(sentences) > char_limit =>
         /\ engine_calls = <<>>
         /\ pc \in {"TooLarge", "Done"}
         /\ pc = "Done" => (response.kind = "error" /\ response.status = 413)
    /\ (TotalChars(sentences) > 0 /\ TotalChars(sentences) <= char_limit) =>
         /\ pc \in {"Resolved", "Translated", "Reassembled", "Scored",
                    "Unscored", "Done"}
         /\ pc # "Resolved" => Len(engine_calls) = 1
         /\ pc = "Done" => response.kind = "success"

\* a request of exactly char_limit characters, answered by a success
C7_Witness ==
  /\ pc = "Done"
  /\ Accepted
  /\ char_limit = MaxCharLimit
  /\ TotalChars(sentences) = char_limit
  /\ Len(engine_calls) = 1
  /\ response.kind = "success"

\* ---------------------------------------------------------------------- C8
\* C8: with a domain axis configured, factor resolution does not raise, and
\* the resolved domain is the mapping's value for a non-empty domain the
\* mapping knows, and the first default otherwise.
C8_DomainFallback ==
  ("domain" \in factors /\ Loaded
     /\ pc \in {"Resolved", "Translated", "Reassembled", "Scored",
                "Unscored"}) =>
    /\ raised = "none"
    /\ (body.domain # "" /\ body.domain \in DOMAIN DomainMapping) =>
         sent_factors.domain = DomainMapping[body.domain]
    /\ (body.domain = "" \/ body.domain \notin DOMAIN DomainMapping) =>
         sent_factors.domain = DomainFactors[1]

\* an unknown domain resolved to the first default
C8_Witness ==
  /\ pc = "Resolved"
  /\ "domain" \in factors
  /\ body.domain = "zz"
  /\ sent_factors.domain = "<gen>"

\* ---------------------------------------------------------------------- C9
\* C9: when the search fails for some sentence of a Plain request with n
\* sentences, the delimiters are '' followed by n-1 single spaces followed
\* by '', whatever was recovered before the failure.
C9_FallbackDelimiters ==
  (Loaded /\ body.text.kind = "str" /\ pc \in AfterSegmentation
     /\ ~AllFound) =>
    LET n == Len(sentences)
        d == delimiters.val
    IN  /\ ~delimiters.none
        /\ Len(d) = n + 1
        /\ d[1] = <<>>
        /\ d[n + 1] = <<>>
        /\ \A i \in 2..n : d[i] = <<" ">>

\* the second sentence is not found after the first was, behind a
\* non-empty delimiter
C9_Witness ==
  /\ pc = "Segmented"
  /\ body.text.kind = "str"
  /\ Len(sentences) = 2
  /\ ~AllFound
  /\ LET t == TrackDelimiters(body.text.val, sentences, <<>>)
     IN  Len(t.delims) = 1 /\ t.delims[1] # <<>>
  /\ delimiters.val = << <<>>, <<" ">>, <<>> >>

\* --------------------------------------------------------------------- C10
\* the transitions of the pipeline's state machine
PipelineEdges ==
  {<<"Start", "Validated">>, <<"Start", "Done">>,
   <<"Validated", "Segmented">>,
   <<"Segmented", "EmptyShortcut">>, <<"Segmented", "TooLarge">>,
   <<"Segmented", "Resolved">>,
   <<"EmptyShortcut", "Done">>, <<"TooLarge", "Done">>,
   <<"Resolved", "Translated">>, <<"Translated", "Reassembled">>,
   <<"Reassembled", "Scored">>, <<"Reassembled", "Unscored">>,
   <<"Scored", "Done">>, <<"Unscored", "Done">>}

\* C10: every step of process_request is a transition of Start -> Validated
\* -> Segmented -> {EmptyShortcut | TooLarge | Resolved -> Translated ->
\* Reassembled -> {Scored | Unscored}} -> Done; the engine is invoked at
\* most once and only from Resolved; the QE model is invoked at most once,
\* only if configured and only from Reassembled.
C10_PipelineOrdering ==
  [][/\ <<pc, pc'>> \in PipelineEdges
     /\ engine_calls' # engine_calls =>
          (pc = "Resolved" /\ engine_calls = <<>>)
     /\ qe_calls' # qe_calls =>
          (pc = "Reassembled" /\ qe_model /\ qe_calls = <<>>
             /\ Len(engine_calls) = 1)]_vars

====
